---- MODULE Spec2Model ----
(***************************************************************************)
(* etchr-core: the read pipeline (read::run) and the write pipeline        *)
(* (write::run with decompress_image), as one state machine.               *)
(*                                                                         *)
(* One behaviour of Spec is one call of read::run or write::run together   *)
(* with the Ctrl+C handler of main.rs, which may store `false` into the    *)
(* shared `running` flag between any two steps of the call.  SpecSession   *)
(* lets a second run follow on the same device and image (read::run after  *)
(* write::run, or the Verifying stage once more).  SpecEnum is one call of *)
(* platform/linux.rs get_removable_devices over a list of mounted file     *)
(* systems and a listing of /sys/block.                                    *)
(*                                                                         *)
(* File contents are kept as sequences of runs [src, off, len]: `len`      *)
(* bytes taken from byte `off` of the source `src` ("img": the plain image,*)
(* "dev0": what the device held before the call, "zero": padding zeros,    *)
(* "bad": a byte changed behind the program's back).  Runs are always kept *)
(* merged, so two contents are equal exactly when they are the same        *)
(* sequence.  Sizes are the program's own: 1 MiB buffers, 512-byte blocks, *)
(* 8 KiB decompression chunks.                                             *)
(***************************************************************************)
EXTENDS Integers, Sequences, FiniteSets, TLC

(***************************************************************************)
(* Program constants                                                       *)
(***************************************************************************)
BUFFER_SIZE == 1024 * 1024

block_size == 512

DECOMPRESS_BUFFER == 8192

BUFWRITER_CAPACITY == 8192

(***************************************************************************)
(* Bounds of the model                                                     *)
(***************************************************************************)
\* full 1 MiB chunks in the largest raw image / device
MaxChunks == 2

\* full 8 KiB chunks in the largest decoded stream
MaxDecChunks == 2

\* reads in which the decoder returns fewer bytes than were asked for
MaxShortReads == 1

\* the length of such a short read
ShortRead == 100

\* the tail of an image beyond its last full chunk
Tails == {0, 1, block_size, block_size + 188}

RawLens == {k * BUFFER_SIZE + r : k \in 0..MaxChunks, r \in Tails}

DecodedLens == {k * DECOMPRESS_BUFFER + r : k \in 0..MaxDecChunks, r \in {0, 1, block_size + 188}}

DevSizes == {0, BUFFER_SIZE + block_size, (MaxChunks + 1) * BUFFER_SIZE}

\* the file names of the images write::run is given: a.gz, a.gzip, a.img.xz,
\* a.zst, a.zstd, a.img, a, A.GZ, .gz, a.Zstd
ImageNames ==
    {<<"a", ".", "g", "z">>,
     <<"a", ".", "g", "z", "i", "p">>,
     <<"a", ".", "i", "m", "g", ".", "x", "z">>,
     <<"a", ".", "z", "s", "t">>,
     <<"a", ".", "z", "s", "t", "d">>,
     <<"a", ".", "i", "m", "g">>,
     <<"a">>,
     <<"A", ".", "G", "Z">>,
     <<".", "g", "z">>,
     <<"a", ".", "Z", "s", "t", "d">>}

\* the file name read::run writes to: out.img
OutputName == <<"o", "u", "t", ".", "i", "m", "g">>

IoErrorKinds == {"Interrupted", "Other"}

(***************************************************************************)
(* Contents: sequences of merged runs                                      *)
(***************************************************************************)
Run(src, off, len) == [src |-> src, off |-> off, len |-> len]

Bytes(src, off, len) == IF len = 0 THEN <<>> ELSE <<Run(src, off, len)>>

RECURSIVE Size(_)
Size(c) == IF c = <<>> THEN 0 ELSE Head(c).len + Size(Tail(c))

Mergeable(a, b) ==
    /\ a.src = b.src
    /\ \/ a.src = "zero"
       \/ a.src \in {"img", "dev0"} /\ a.off + a.len = b.off

\* a followed by b
Cat(a, b) ==
    IF a = <<>> THEN b
    ELSE IF b = <<>> THEN a
    ELSE LET l == a[Len(a)]
             f == b[1]
         IN IF Mergeable(l, f)
            THEN SubSeq(a, 1, Len(a) - 1) \o <<Run(l.src, l.off, l.len + f.len)>> \o Tail(b)
            ELSE a \o b

AdvanceRun(r, n) == Run(r.src, IF r.src = "zero" THEN 0 ELSE r.off + n, r.len - n)

\* the first n bytes of c (all of c when it is shorter)
RECURSIVE Take(_, _)
Take(c, n) ==
    IF n <= 0 \/ c = <<>> THEN <<>>
    ELSE IF Head(c).len <= n THEN <<Head(c)>> \o Take(Tail(c), n - Head(c).len)
    ELSE <<Run(Head(c).src, Head(c).off, n)>>

\* c without its first n bytes
RECURSIVE Drop(_, _)
Drop(c, n) ==
    IF n <= 0 \/ c = <<>> THEN c
    ELSE IF Head(c).len <= n THEN Drop(Tail(c), n - Head(c).len)
    ELSE <<AdvanceRun(Head(c), n)>> \o Tail(c)

\* every read starts at the first byte
SliceFromStart(c, from, n) == Take(c, n)

\* the n bytes of c from byte offset `from` on
Slice(c, from, n) == Take(Drop(c, from), n)

\* c with `data` stored at byte offset pos (pos + Size(data) <= Size(c))
WriteAt(c, pos, data) == Cat(Cat(Take(c, pos), data), Drop(c, pos + Size(data)))


(***************************************************************************)
(* Text: file names and paths are sequences of characters                  *)
(***************************************************************************)
LowerCase == <<"a", "b", "c", "d", "e", "f", "g", "h", "i", "j", "k", "l", "m", "n", "o", "p", "q", "r", "s", "t", "u", "v", "w", "x", "y", "z">>

UpperCase == <<"A", "B", "C", "D", "E", "F", "G", "H", "I", "J", "K", "L", "M", "N", "O", "P", "Q", "R", "S", "T", "U", "V", "W", "X", "Y", "Z">>

Positions(s, c) == {i \in DOMAIN s : s[i] = c}

Max(S) == CHOOSE x \in S : \A y \in S : y <= x

Lowest(S) == CHOOSE x \in S : \A y \in S : x <= y

\* the characters are left as they are
ToLowercaseNone(s) == s

\* write.rs:48: str::to_lowercase
ToLowercase(s) ==
    [i \in DOMAIN s |-> IF Positions(UpperCase, s[i]) # {}
                        THEN LowerCase[Lowest(Positions(UpperCase, s[i]))]
                        ELSE s[i]]

\* write.rs:45-49: Path::extension of a file name, "" when there is none:
\* what follows the last dot, unless that dot is the first character
Extension(file_name) ==
    LET dots == Positions(file_name, ".")
    IN IF dots = {} \/ Max(dots) = 1 THEN <<>>
       ELSE SubSeq(file_name, Max(dots) + 1, Len(file_name))

(***************************************************************************)
(* platform/linux.rs: the inputs of get_removable_devices                  *)
(***************************************************************************)
\* mounted file systems in the longest list
MaxDisks == 2

\* entries of /sys/block in the longest listing
MaxBlocks == 2

\* a file of /sys/block/<name>/ with the given content
File(content) == [readable |-> TRUE, content |-> content]

\* a file of /sys/block/<name>/ that cannot be read
Unreadable == [readable |-> FALSE, content |-> <<>>]

\* sysinfo's disks: /dev/sda1, /dev/nvme0n1p2, /dev/mmcblk0p1, /dev/sdb,
\* /dev/mapper/root, the pool nvmepool and sdaa1 (a partition of the 27th
\* disk) mounted on /; sda1 on /mnt; sda2 without mount point
DiskEntries ==
    {[name |-> <<"/", "d", "e", "v", "/", "s", "d", "a", "1">>, mount_point |-> "/"],
     [name |-> <<"/", "d", "e", "v", "/", "n", "v", "m", "e", "0", "n", "1", "p", "2">>, mount_point |-> "/"],
     [name |-> <<"/", "d", "e", "v", "/", "m", "m", "c", "b", "l", "k", "0", "p", "1">>, mount_point |-> "/"],
     [name |-> <<"/", "d", "e", "v", "/", "s", "d", "b">>, mount_point |-> "/"],
     [name |-> <<"/", "d", "e", "v", "/", "m", "a", "p", "p", "e", "r", "/", "r", "o", "o", "t">>, mount_point |-> "/"],
     [name |-> <<"n", "v", "m", "e", "p", "o", "o", "l">>, mount_point |-> "/"],
     [name |-> <<"s", "d", "a", "a", "1">>, mount_point |-> "/"],
     [name |-> <<"s", "d", "a", "1">>, mount_point |-> "/mnt"],
     [name |-> <<"s", "d", "a", "2">>, mount_point |-> ""]}

\* an entry read_dir fails on
ErrEntry == [ok |-> FALSE, name |-> <<>>, removable |-> Unreadable, size |-> Unreadable]

\* entries of /sys/block with their `removable` and `size` files
BlockEntries ==
    {[ok |-> TRUE, name |-> <<"s", "d", "a">>, removable |-> File(<<"1", "\n">>), size |-> File(<<"2", "0", "4", "8", "\n">>)],
     [ok |-> TRUE, name |-> <<"s", "d", "b">>, removable |-> File(<<"1", "\n">>), size |-> File(<<"2", "0", "4", "8", "\n">>)],
     [ok |-> TRUE, name |-> <<"s", "d", "b">>, removable |-> File(<<"0", "\n">>), size |-> File(<<"2", "0", "4", "8", "\n">>)],
     [ok |-> TRUE, name |-> <<"s", "d", "b">>, removable |-> Unreadable, size |-> File(<<"2", "0", "4", "8", "\n">>)],
     [ok |-> TRUE, name |-> <<"s", "d", "b">>, removable |-> File(<<"1", "\n">>), size |-> File(<<"0", "\n">>)],
     [ok |-> TRUE, name |-> <<"s", "d", "b">>, removable |-> File(<<"1", "\n">>), size |-> Unreadable],
     [ok |-> TRUE, name |-> <<"s", "d", "b">>, removable |-> File(<<"1", "\n">>), size |-> File(<<"x", "\n">>)],
     [ok |-> TRUE, name |-> <<"n", "v", "m", "e", "0", "n", "1">>, removable |-> File(<<"1", "\n">>), size |-> File(<<"2", "0", "4", "8", "\n">>)],
     [ok |-> TRUE, name |-> <<"m", "m", "c", "b", "l", "k", "0">>, removable |-> File(<<"1", "\n">>), size |-> File(<<"2", "0", "4", "8", "\n">>)],
     [ok |-> TRUE, name |-> <<"l", "o", "o", "p", "0">>, removable |-> File(<<"1", "\n">>), size |-> File(<<"2", "0", "4", "8", "\n">>)],
     ErrEntry}

\* the sequences of at most n different members of S
Lists(S, n) == UNION {{q \in [1..k -> S] : \A i, j \in 1..k : i # j => q[i] # q[j]} : k \in 0..n}

DiskLists == Lists(DiskEntries, MaxDisks)

\* a directory lists every name once
BlockLists ==
    {q \in Lists(BlockEntries, MaxBlocks) :
        \A i, j \in DOMAIN q : (i # j /\ q[i].ok /\ q[j].ok) => q[i].name # q[j].name}

(***************************************************************************)
(* State                                                                   *)
(***************************************************************************)
VARIABLES
    op,            \* "write": write::run, "read": read::run, "list": linux.rs
                   \* get_removable_devices, "list_windows": windows.rs get_removable_devices
    image_name,    \* the file name of the image path, character by character
    ext,           \* decompress_image's `ext`: the lower-cased extension
    plainLen,      \* length of the plain (decoded) image
    verify,        \* write::run's `verify`
    devSize,       \* size of the block device in bytes
    running,       \* the shared AtomicBool
    dev,           \* content of the device
    inputState,    \* the caller's image file: "intact", "deleted"
    tmpState,      \* the temporary file: "none", "exists", "deleted"
    tmp,           \* content of the temporary file
    outState,      \* read::run's output image: "absent", "old", "exists"
    out,           \* content of read::run's output image
    pc,            \* position in the running call
    result,        \* "none" while running, then what the call returned
    image_path,    \* DecompressedImage.path: "none", "input", "tmp"
    image_len,     \* write::run
    written,       \* write::run
    remaining,     \* write::run, verification
    image_hasher,  \* bytes fed to the image digest
    device_hasher, \* bytes fed to the device digest
    img_off,       \* offset of the open image file handle
    dev_off,       \* offset of the open device file handle
    total,         \* decompress_image
    bw,            \* bytes held in the BufWriter over the temporary file
    shortReads,    \* short decoder reads so far
    size_bytes,    \* read::run
    read_total,    \* read::run
    corrupted,     \* a device byte was changed behind the program's back
    log,           \* calls and callbacks so far, oldest first
    prior,         \* what ran earlier on the same device and image, "none" at first
    disks,         \* the mounted file systems sysinfo lists: [name, mount_point]
    blocks,        \* the entries read_dir("/sys/block") yields, in order
    system_disk_parent, \* get_removable_devices
    devices,       \* get_removable_devices
    entry          \* the number of entries of /sys/block handled so far

inputs == <<op, image_name, ext, plainLen, verify, devSize>>

files == <<dev, inputState, tmpState, tmp, outState, out>>

writeLocals == <<image_path, image_len, written, remaining, image_hasher, device_hasher>>

offsets == <<img_off, dev_off>>

decLocals == <<total, bw, shortReads>>

readLocals == <<size_bytes, read_total>>

enumVars == <<disks, blocks, system_disk_parent, devices, entry>>

vars == <<inputs, running, files, pc, result, writeLocals, offsets, decLocals, readLocals, corrupted, log,
          prior, enumVars>>

(***************************************************************************)
(* The files as the call finds them                                        *)
(***************************************************************************)
\* write.rs:54-65: the decoder the extension selects
Decoder(e) ==
    CASE e \in {<<"g", "z">>, <<"g", "z", "i", "p">>} -> "gzip"
      [] e = <<"x", "z">> -> "xz"
      [] e \in {<<"z", "s", "t">>, <<"z", "s", "t", "d">>} -> "zstd"
      [] OTHER -> "none"

PlainImage == Bytes("img", 0, plainLen)

\* the file at DecompressedImage.path
ImageContent == IF image_path = "tmp" THEN tmp ELSE PlainImage

Init ==
    /\ op \in {"write", "read"}
    /\ image_name \in (IF op = "write" THEN ImageNames ELSE {OutputName})
    /\ ext = ToLowercase(Extension(image_name))
    /\ verify \in BOOLEAN
    /\ devSize \in DevSizes
    /\ plainLen \in RawLens \cup DecodedLens
    /\ op = "write" => plainLen \in (IF Decoder(ext) = "none" THEN RawLens ELSE DecodedLens)
    /\ op = "read" => plainLen = 0 /\ verify = FALSE
    /\ running = TRUE
    /\ dev = Bytes("dev0", 0, devSize)
    /\ inputState = "intact"
    /\ tmpState = "none"
    /\ tmp = <<>>
    /\ outState \in (IF op = "read" THEN {"absent", "old"} ELSE {"absent"})
    /\ out = IF outState = "old" THEN Bytes("out0", 0, 1) ELSE <<>>
    /\ pc = IF op = "write" THEN "w_begin" ELSE "r_open"
    /\ result = "none"
    /\ image_path = "none"
    /\ image_len = 0
    /\ written = 0
    /\ remaining = 0
    /\ image_hasher = <<>>
    /\ device_hasher = <<>>
    /\ img_off = 0
    /\ dev_off = 0
    /\ total = 0
    /\ bw = <<>>
    /\ shortReads = 0
    /\ size_bytes = 0
    /\ read_total = 0
    /\ corrupted = FALSE
    /\ log = <<>>
    /\ prior = "none"
    /\ disks = <<>>
    /\ blocks = <<>>
    /\ system_disk_parent = <<>>
    /\ devices = <<>>
    /\ entry = 0

(***************************************************************************)
(* main.rs:147-149: the Ctrl+C handler                                     *)
(***************************************************************************)
\* a handler that flips the flag
InterruptToggle ==
    /\ pc # "done"
    /\ running' = ~running
    /\ UNCHANGED <<inputs, prior, enumVars, files, pc, result, writeLocals, offsets, decLocals, readLocals, corrupted, log>>

Interrupt ==
    /\ pc # "done"
    /\ running
    /\ running' = FALSE
    /\ UNCHANGED <<inputs, prior, enumVars, files, pc, result, writeLocals, offsets, decLocals, readLocals, corrupted, log>>

(***************************************************************************)
(* Returning from a call                                                   *)
(***************************************************************************)
\* the temporary file is left behind
DropTempLeak(st) == st

\* write.rs:22-28: dropping the owner of the temporary file deletes it
DropTemp(st) == IF st = "exists" THEN "deleted" ELSE st

\* the wrapper of a pass-through image owns the caller's file
DropInputOwned(st, path) == IF path = "input" THEN "deleted" ELSE st

\* write.rs:59-63: `_temp_handle: None`: dropping the wrapper of a
\* pass-through image deletes nothing
DropInput(st, path) == st

DropEvents(st) == IF st = "exists" /\ DropTemp(st) = "deleted" THEN << <<"delete_temp", 0>> >> ELSE <<>>

\* the call returns `res` after the events `evs`; its locals are dropped
Return(res, evs) ==
    /\ pc' = "done"
    /\ result' = res
    /\ tmpState' = DropTemp(tmpState)
    /\ inputState' = DropInput(inputState, image_path)
    /\ log' = log \o evs \o DropEvents(tmpState)

\* write.rs:144-150: how run reports an error of decompress_image
DecompressError(kind) == IF kind = "Interrupted" THEN "Cancelled" ELSE "IoFailure"


(***************************************************************************)
(* write.rs:37-98: decompress_image                                        *)
(***************************************************************************)
\* write.rs:69: BufWriter::write_all(data): what stays buffered, what
\* reaches the file, and how many writes on the file it takes
BufWriteAll(buf, file, data) ==
    LET n == Size(data)
        spare == BUFWRITER_CAPACITY - Size(buf)
    IN IF n < spare
       THEN [buf |-> Cat(buf, data), file |-> file, io |-> <<>>]
       ELSE LET flushFirst == n > spare
                file1 == IF flushFirst THEN Cat(file, buf) ELSE file
                buf1 == IF flushFirst THEN <<>> ELSE buf
                io1 == IF flushFirst /\ buf # <<>> THEN << <<"tmp_write", Size(buf)>> >> ELSE <<>>
            IN IF n >= BUFWRITER_CAPACITY
               THEN [buf |-> buf1, file |-> Cat(file1, data), io |-> io1 \o << <<"tmp_write", n>> >>]
               ELSE [buf |-> Cat(buf1, data), file |-> file1, io |-> io1]

\* write.rs:68-90: leaving the block drops the BufWriter, which writes
\* what it still holds (errors ignored)
DropWriterFile(buf, file) == Cat(file, buf)

DropWriterEvents(buf) == IF buf = <<>> THEN <<>> ELSE << <<"tmp_write", Size(buf)>> >>

\* one read returns everything that is left
DecoderReadsWhole(left, short) == {left}

\* write.rs:81: what one decoder read may return with `left` bytes to come
DecoderReads(left, short) ==
    {IF left < DECOMPRESS_BUFFER THEN left ELSE DECOMPRESS_BUFFER}
    \cup (IF short < MaxShortReads /\ left > ShortRead THEN {ShortRead} ELSE {})

\* write.rs:143: on_decompress_start(), then decompress_image is entered
DecompressStart ==
    /\ pc = "w_begin"
    /\ pc' = "d_open"
    /\ log' = Append(log, <<"on_decompress_start", 0>>)
    /\ UNCHANGED <<inputs, prior, enumVars, running, files, result, writeLocals, offsets, decLocals, readLocals, corrupted>>

\* write.rs:51: File::open(input_path)?
OpenInput ==
    /\ pc = "d_open"
    /\ \/ /\ pc' = "d_select"
          /\ log' = Append(log, <<"open_input", 0>>)
          /\ UNCHANGED <<result, inputState, tmpState>>
       \/ Return(DecompressError("Other"), << <<"open_input_failed", 0>> >>)
    /\ UNCHANGED <<inputs, prior, enumVars, running, dev, tmp, outState, out, writeLocals, offsets, decLocals, readLocals, corrupted>>

\* write.rs:54-65: the reader for the extension; none: the original path
SelectReader ==
    /\ pc = "d_select"
    /\ \/ /\ Decoder(ext) = "none"
          /\ image_path' = "input"
          /\ pc' = "w_open_image"
          /\ log' = Append(log, <<"pass_through", 0>>)
          /\ UNCHANGED <<result, inputState, tmpState>>
       \/ /\ Decoder(ext) # "none"
          /\ pc' = "d_tmp"
          /\ log' = Append(log, <<Decoder(ext), 0>>)
          /\ UNCHANGED <<result, inputState, tmpState, image_path>>
       \/ \* zstd::stream::read::Decoder::new(input_file)? fails
          /\ Decoder(ext) = "zstd"
          /\ Return(DecompressError("Other"), << <<"zstd_failed", 0>> >>)
          /\ UNCHANGED image_path
    /\ UNCHANGED <<inputs, prior, enumVars, running, dev, tmp, outState, out, image_len, written, remaining,
                   image_hasher, device_hasher, offsets, decLocals, readLocals, corrupted>>

\* write.rs:67-71: NamedTempFile::new()?, the BufWriter, total = 0
CreateTemp ==
    /\ pc = "d_tmp"
    /\ \/ /\ tmpState' = "exists"
          /\ tmp' = <<>>
          /\ bw' = <<>>
          /\ total' = 0
          /\ pc' = "d_check"
          /\ log' = Append(log, <<"create_temp", 0>>)
          /\ UNCHANGED <<result, inputState>>
       \/ /\ Return(DecompressError("Other"), << <<"create_temp_failed", 0>> >>)
          /\ UNCHANGED <<tmp, bw, total>>
    /\ UNCHANGED <<inputs, prior, enumVars, running, dev, outState, out, writeLocals, offsets, shortReads, readLocals, corrupted>>

\* write.rs:74: running.load(SeqCst) at the top of the loop
DecompressCheck ==
    /\ pc = "d_check"
    /\ pc' = IF running THEN "d_read" ELSE "d_cancel"
    /\ log' = Append(log, <<"load_running", IF running THEN 1 ELSE 0>>)
    /\ UNCHANGED <<inputs, prior, enumVars, running, files, result, writeLocals, offsets, decLocals, readLocals, corrupted>>

\* write.rs:75-78 and 146-148: Err(Interrupted) leaves the block (the
\* BufWriter and the NamedTempFile are dropped); run reports it
DecompressCancel ==
    /\ pc = "d_cancel"
    /\ tmp' = DropWriterFile(bw, tmp)
    /\ bw' = <<>>
    /\ Return(DecompressError("Interrupted"), DropWriterEvents(bw))
    /\ UNCHANGED <<inputs, prior, enumVars, running, dev, outState, out, writeLocals, offsets, total, shortReads, readLocals, corrupted>>

\* write.rs:81-87: one read from the decoder, written through the BufWriter
DecompressChunk ==
    /\ pc = "d_read"
    /\ \/ \* reader.read fails
          \E kind \in IoErrorKinds :
             /\ tmp' = DropWriterFile(bw, tmp)
             /\ bw' = <<>>
             /\ Return(DecompressError(kind), << <<"decoder_read_failed", 0>> >> \o DropWriterEvents(bw))
             /\ UNCHANGED <<total, shortReads>>
       \/ \* n == 0: end of stream
          /\ total = plainLen
          /\ pc' = "d_flush"
          /\ log' = Append(log, <<"decoder_read", 0>>)
          /\ UNCHANGED <<result, inputState, tmpState, tmp, bw, total, shortReads>>
       \/ \E n \in DecoderReads(plainLen - total, shortReads) :
             /\ n > 0
             /\ LET w == BufWriteAll(bw, tmp, Bytes("img", total, n))
                IN \/ /\ tmp' = w.file
                      /\ bw' = w.buf
                      /\ total' = total + n
                      /\ shortReads' = IF n = ShortRead THEN shortReads + 1 ELSE shortReads
                      /\ pc' = "d_check"
                      /\ log' = log \o << <<"decoder_read", n>> >> \o w.io
                                    \o << <<"on_decompress_progress", total + n>> >>
                      /\ UNCHANGED <<result, inputState, tmpState>>
                   \/ \* writer.write_all fails on a write to the file
                      /\ w.io # <<>>
                      /\ tmp' = tmp
                      /\ bw' = <<>>
                      /\ Return(DecompressError("Other"), << <<"decoder_read", n>>, <<"tmp_write_failed", 0>> >>)
                      /\ UNCHANGED <<total, shortReads>>
    /\ UNCHANGED <<inputs, prior, enumVars, running, dev, outState, out, writeLocals, offsets, readLocals, corrupted>>

\* the buffered bytes are dropped
FlushWriterSkipped(buf, file) == file

\* write.rs:89: writer.flush(): what the BufWriter holds goes to the file
FlushWriter(buf, file) == Cat(file, buf)

\* write.rs:89-97: writer.flush()?, then the temp file is handed over
DecompressFinish ==
    /\ pc = "d_flush"
    /\ \/ /\ tmp' = FlushWriter(bw, tmp)
          /\ bw' = <<>>
          /\ image_path' = "tmp"
          /\ pc' = "w_open_image"
          /\ log' = log \o DropWriterEvents(bw)
          /\ UNCHANGED <<result, inputState, tmpState>>
       \/ /\ Return(DecompressError("Other"), << <<"tmp_write_failed", 0>> >>)
          /\ UNCHANGED <<tmp, bw, image_path>>
    /\ UNCHANGED <<inputs, prior, enumVars, running, dev, outState, out, image_len, written, remaining,
                   image_hasher, device_hasher, offsets, total, shortReads, readLocals, corrupted>>


(***************************************************************************)
(* write.rs:126-232: run, the Writing stage                                *)
(***************************************************************************)
Min(a, b) == IF a < b THEN a ELSE b

\* a chunk of no bytes
ChunkLenNone(left) == 0

\* write.rs:174 (and 212, read.rs:87): the length of the next chunk
ChunkLen(left) == Min(BUFFER_SIZE, left)

\* the chunk goes out unpadded
PaddedSizeNone(to_read) == to_read

\* write.rs:179-185: the chunk length rounded up to whole blocks
PaddedSize(to_read) ==
    IF to_read % block_size # 0
    THEN ((to_read + block_size - 1) \div block_size) * block_size
    ELSE to_read

\* write.rs:181: buffer[to_read..pad].fill(0)
PaddedChunk(data) == Cat(data, Bytes("zero", 0, PaddedSize(Size(data)) - Size(data)))

\* the padded length is counted as written
WrittenAfterPadded(w, to_read, padded_size) == w + padded_size

\* write.rs:188: written += to_read
WrittenAfter(w, to_read, padded_size) == w + to_read

\* a write of `data` at `pos` of the device: the bytes that fit are stored
DeviceFits(pos, n) == pos + n <= devSize

\* every chunk is stored at the start of the device
DeviceStoreAtStart(d, pos, data) == WriteAt(d, 0, Take(data, Size(d)))

DeviceStore(d, pos, data) == WriteAt(d, pos, Take(data, Size(d) - pos))

\* write.rs:152-153: File::open(&image)?, metadata()?.len()
OpenImage ==
    /\ pc = "w_open_image"
    /\ \/ /\ image_len' = Size(ImageContent)
          /\ img_off' = 0
          /\ pc' = "w_open_device"
          /\ log' = Append(log, <<"open_image", 0>>)
          /\ UNCHANGED <<result, inputState, tmpState>>
       \/ /\ Return("IoFailure", << <<"open_image_failed", 0>> >>)
          /\ UNCHANGED <<image_len, img_off>>
    /\ UNCHANGED <<inputs, prior, enumVars, running, dev, tmp, outState, out, image_path, written, remaining,
                   image_hasher, device_hasher, dev_off, decLocals, readLocals, corrupted>>

\* write.rs:155-168: open the device, on_write_start(image_len), written = 0
OpenDevice ==
    /\ pc = "w_open_device"
    /\ \/ /\ dev_off' = 0
          /\ written' = 0
          /\ pc' = "w_check"
          /\ log' = log \o << <<"open_device", 0>>, <<"on_write_start", image_len>> >>
          /\ UNCHANGED <<result, inputState, tmpState>>
       \/ /\ Return("IoFailure", << <<"open_device_failed", 0>> >>)
          /\ UNCHANGED <<dev_off, written>>
    /\ UNCHANGED <<inputs, prior, enumVars, running, dev, tmp, outState, out, image_path, image_len, remaining,
                   image_hasher, device_hasher, img_off, decLocals, readLocals, corrupted>>

\* the loop goes on whatever the flag holds
WriteCheckAlways ==
    /\ pc = "w_check"
    /\ IF written < image_len
       THEN /\ pc' = "w_chunk"
            /\ log' = Append(log, <<"load_running", 1>>)
       ELSE /\ pc' = "w_flush"
            /\ log' = log
    /\ UNCHANGED <<inputs, prior, enumVars, running, files, result, writeLocals, offsets, decLocals, readLocals, corrupted>>

\* write.rs:169-172: the loop condition, then running.load(SeqCst)
WriteCheck ==
    /\ pc = "w_check"
    /\ IF written < image_len
       THEN /\ pc' = IF running THEN "w_chunk" ELSE "w_cancel"
            /\ log' = Append(log, <<"load_running", IF running THEN 1 ELSE 0>>)
       ELSE /\ pc' = "w_flush"
            /\ log' = log
    /\ UNCHANGED <<inputs, prior, enumVars, running, files, result, writeLocals, offsets, decLocals, readLocals, corrupted>>

\* write.rs:171: return Err("Operation cancelled by user")
WriteCancel ==
    /\ pc = "w_cancel"
    /\ Return("Cancelled", <<>>)
    /\ UNCHANGED <<inputs, prior, enumVars, running, dev, tmp, outState, out, writeLocals, offsets, decLocals, readLocals, corrupted>>

\* write.rs:174-189: read one chunk of the image, pad it, write it
WriteChunk ==
    /\ pc = "w_chunk"
    /\ LET to_read == ChunkLen(image_len - written)
           data == Slice(ImageContent, img_off, to_read)
           padded_size == PaddedSize(to_read)
       IN \/ \* image_file.read_exact fails
             /\ Return("IoFailure", << <<"image_read_failed", 0>> >>)
             /\ UNCHANGED <<dev, written, img_off, dev_off>>
          \/ \* device_file.write_all fails
             /\ Return("IoFailure", << <<"image_read", to_read>>, <<"device_write_failed", 0>> >>)
             /\ dev' = IF DeviceFits(dev_off, padded_size) THEN dev
                       ELSE DeviceStore(dev, dev_off, PaddedChunk(data))
             /\ img_off' = img_off + to_read
             /\ UNCHANGED <<written, dev_off>>
          \/ /\ DeviceFits(dev_off, padded_size)
             /\ dev' = DeviceStore(dev, dev_off, PaddedChunk(data))
             /\ dev_off' = dev_off + padded_size
             /\ img_off' = img_off + to_read
             /\ written' = WrittenAfter(written, to_read, padded_size)
             /\ pc' = "w_check"
             /\ log' = log \o << <<"image_read", to_read>>, <<"device_write", padded_size>>,
                                 <<"on_write_progress", WrittenAfter(written, to_read, padded_size)>> >>
             /\ UNCHANGED <<result, inputState, tmpState>>
    /\ UNCHANGED <<inputs, prior, enumVars, running, tmp, outState, out, image_path, image_len, remaining,
                   image_hasher, device_hasher, decLocals, readLocals, corrupted>>

\* verification runs whatever `verify` says
VerifyAlways == TRUE

\* write.rs:194: if verify
VerifyRequested == verify

\* write.rs:192-194 and 231: device_file.flush()?, then verification or Ok(())
WriteFlush ==
    /\ pc = "w_flush"
    /\ \/ /\ VerifyRequested
          /\ pc' = "v_open"
          /\ log' = Append(log, <<"device_flush", 0>>)
          /\ UNCHANGED <<result, inputState, tmpState>>
       \/ /\ ~VerifyRequested
          /\ Return("Ok", << <<"device_flush", 0>> >>)
       \/ Return("IoFailure", << <<"device_flush_failed", 0>> >>)
    /\ UNCHANGED <<inputs, prior, enumVars, running, dev, tmp, outState, out, writeLocals, offsets, decLocals, readLocals, corrupted>>


(***************************************************************************)
(* write.rs:194-229: run, the Verifying stage                              *)
(***************************************************************************)
\* the bytes a stray change of the device may hit: the first and the last
\* byte of the image, and the first byte behind it
CorruptOffsets == {o \in {0, image_len - 1, image_len} : 0 <= o /\ o < devSize}

\* the medium changes one byte after it was written, before it is first
\* read back
Corrupt ==
    /\ pc = "v_open"
    /\ prior = "none"
    /\ ~corrupted
    /\ \E o \in CorruptOffsets : dev' = WriteAt(dev, o, Bytes("bad", o, 1))
    /\ corrupted' = TRUE
    /\ UNCHANGED <<inputs, prior, enumVars, running, inputState, tmpState, tmp, outState, out, pc, result,
                   writeLocals, offsets, decLocals, readLocals, log>>

\* the device is opened for writing and emptied
OpenForReadTruncating(d) == Bytes("zero", 0, Size(d))

\* write.rs:196: File::open(device_path): read-only, the content stays
OpenForRead(d) == d

\* write.rs:195-206: both files are opened again, on_verify_start(image_len)
VerifyOpen ==
    /\ pc = "v_open"
    /\ \/ /\ dev' = OpenForRead(dev)
          /\ img_off' = 0
          /\ dev_off' = 0
          /\ image_hasher' = <<>>
          /\ device_hasher' = <<>>
          /\ remaining' = image_len
          /\ pc' = "v_check"
          /\ log' = log \o << <<"open_image", 0>>, <<"open_device", 0>>, <<"on_verify_start", image_len>> >>
          /\ UNCHANGED <<result, inputState, tmpState>>
       \/ /\ \E evs \in {<< <<"open_image_failed", 0>> >>,
                         << <<"open_image", 0>>, <<"open_device_failed", 0>> >>} :
                Return("IoFailure", evs)
          /\ UNCHANGED <<dev, img_off, dev_off, image_hasher, device_hasher, remaining>>
    /\ UNCHANGED <<inputs, prior, enumVars, running, tmp, outState, out, image_path, image_len, written,
                   decLocals, readLocals, corrupted>>

\* write.rs:207-210: the loop condition, then running.load(SeqCst)
VerifyCheck ==
    /\ pc = "v_check"
    /\ IF remaining > 0
       THEN /\ pc' = IF running THEN "v_chunk" ELSE "v_cancel"
            /\ log' = Append(log, <<"load_running", IF running THEN 1 ELSE 0>>)
       ELSE /\ pc' = "v_compare"
            /\ log' = log
    /\ UNCHANGED <<inputs, prior, enumVars, running, files, result, writeLocals, offsets, decLocals, readLocals, corrupted>>

\* write.rs:209: return Err("Operation cancelled by user")
VerifyCancel ==
    /\ pc = "v_cancel"
    /\ Return("Cancelled", <<>>)
    /\ UNCHANGED <<inputs, prior, enumVars, running, dev, tmp, outState, out, writeLocals, offsets, decLocals, readLocals, corrupted>>

\* the loop gives up after one chunk
RemainingAfterFirstChunk(r, chunk) == 0

\* write.rs:219: remaining -= chunk
RemainingAfter(r, chunk) == r - chunk

\* write.rs:212-220: one chunk of each file into its digest
VerifyChunk ==
    /\ pc = "v_chunk"
    /\ LET chunk == ChunkLen(remaining)
       IN \/ \* image_file.read_exact fails
             /\ Return("IoFailure", << <<"image_read_failed", 0>> >>)
             /\ UNCHANGED <<remaining, image_hasher, device_hasher, img_off, dev_off>>
          \/ \* device_file.read_exact fails
             /\ Return("IoFailure", << <<"image_read", chunk>>, <<"device_read_failed", 0>> >>)
             /\ img_off' = img_off + chunk
             /\ UNCHANGED <<remaining, image_hasher, device_hasher, dev_off>>
          \/ /\ DeviceFits(dev_off, chunk)
             /\ image_hasher' = Cat(image_hasher, Slice(ImageContent, img_off, chunk))
             /\ device_hasher' = Cat(device_hasher, Slice(dev, dev_off, chunk))
             /\ img_off' = img_off + chunk
             /\ dev_off' = dev_off + chunk
             /\ remaining' = RemainingAfter(remaining, chunk)
             /\ pc' = "v_check"
             /\ log' = log \o << <<"image_read", chunk>>, <<"device_read", chunk>>,
                                 <<"on_verify_progress", image_len - RemainingAfter(remaining, chunk)>> >>
             /\ UNCHANGED <<result, inputState, tmpState>>
    /\ UNCHANGED <<inputs, prior, enumVars, running, dev, tmp, outState, out, image_path, image_len, written,
                   decLocals, readLocals, corrupted>>

\* only the lengths of the two streams are compared
DigestsDifferBySize(h1, h2) == Size(h1) # Size(h2)

\* write.rs:223-226: the two digests differ (the digest taken as injective)
DigestsDiffer(h1, h2) == h1 # h2

\* write.rs:223-231: compare the digests
VerifyCompare ==
    /\ pc = "v_compare"
    /\ Return(IF DigestsDiffer(image_hasher, device_hasher) THEN "VerificationMismatch" ELSE "Ok", <<>>)
    /\ UNCHANGED <<inputs, prior, enumVars, running, dev, tmp, outState, out, writeLocals, offsets, decLocals, readLocals, corrupted>>

(***************************************************************************)
(* read.rs:42-98: run                                                      *)
(***************************************************************************)
\* the guard lets every size through
IsZeroSizeNever(size) == FALSE

\* read.rs:66: size_bytes == 0
IsZeroSize(size) == size = 0

\* read.rs:52-70: open the device, BLKGETSIZE64, the zero-size guard,
\* on_read_start(size_bytes)
ReadOpen ==
    /\ pc = "r_open"
    /\ \/ /\ ~IsZeroSize(devSize)
          /\ size_bytes' = devSize
          /\ dev_off' = 0
          /\ pc' = "r_create"
          /\ log' = log \o << <<"open_device", 0>>, <<"on_read_start", devSize>> >>
          /\ UNCHANGED <<result, inputState, tmpState>>
       \/ /\ IsZeroSize(devSize)
          /\ size_bytes' = devSize
          /\ Return("ZeroSize", << <<"open_device", 0>> >>)
          /\ UNCHANGED dev_off
       \/ /\ Return("IoFailure", << <<"open_device_failed", 0>> >>)
          /\ UNCHANGED <<size_bytes, dev_off>>
    /\ UNCHANGED <<inputs, prior, enumVars, running, dev, tmp, outState, out, writeLocals, img_off, decLocals,
                   read_total, corrupted>>

\* read.rs:72-80: File::create(image_path)?, read_total = 0
ReadCreate ==
    /\ pc = "r_create"
    /\ \/ /\ outState' = "exists"
          /\ out' = <<>>
          /\ read_total' = 0
          /\ pc' = "r_check"
          /\ log' = Append(log, <<"create_output", 0>>)
          /\ UNCHANGED <<result, inputState, tmpState>>
       \/ /\ Return("IoFailure", << <<"create_output_failed", 0>> >>)
          /\ UNCHANGED <<outState, out, read_total>>
    /\ UNCHANGED <<inputs, prior, enumVars, running, dev, tmp, writeLocals, offsets, decLocals, size_bytes, corrupted>>

\* read.rs:81-82: the loop condition, then running.load(SeqCst)
ReadCheck ==
    /\ pc = "r_check"
    /\ IF read_total < size_bytes
       THEN /\ pc' = IF running THEN "r_chunk" ELSE "r_cancel"
            /\ log' = Append(log, <<"load_running", IF running THEN 1 ELSE 0>>)
       ELSE /\ pc' = "r_flush"
            /\ log' = log
    /\ UNCHANGED <<inputs, prior, enumVars, running, files, result, writeLocals, offsets, decLocals, readLocals, corrupted>>

\* the cancellation error without removing the file
ReadCancelKeepsFile ==
    /\ pc = "r_cancel"
    /\ Return("Cancelled", <<>>)
    /\ UNCHANGED <<inputs, prior, enumVars, running, dev, tmp, outState, out, writeLocals, offsets, decLocals, readLocals, corrupted>>

\* read.rs:83-84: std::fs::remove_file(image_path)?, then the cancellation error
ReadCancel ==
    /\ pc = "r_cancel"
    /\ \/ /\ outState' = "absent"
          /\ out' = <<>>
          /\ Return("Cancelled", << <<"remove_output", 0>> >>)
       \/ /\ Return("IoFailure", << <<"remove_output_failed", 0>> >>)
          /\ UNCHANGED <<outState, out>>
    /\ UNCHANGED <<inputs, prior, enumVars, running, dev, tmp, writeLocals, offsets, decLocals, readLocals, corrupted>>

\* a whole buffer is counted for every chunk
ReadTotalAfterBuffer(t, to_read) == t + BUFFER_SIZE

\* read.rs:92: read_total += to_read
ReadTotalAfter(t, to_read) == t + to_read

\* read.rs:87-93: one chunk from the device to the output file
ReadChunk ==
    /\ pc = "r_chunk"
    /\ LET to_read == ChunkLen(size_bytes - read_total)
       IN \/ \* device_file.read_exact fails
             /\ Return("IoFailure", << <<"device_read_failed", 0>> >>)
             /\ UNCHANGED <<out, read_total, dev_off>>
          \/ \* image_file.write_all fails
             /\ Return("IoFailure", << <<"device_read", to_read>>, <<"output_write_failed", 0>> >>)
             /\ dev_off' = dev_off + to_read
             /\ UNCHANGED <<out, read_total>>
          \/ /\ DeviceFits(dev_off, to_read)
             /\ out' = Cat(out, Slice(dev, dev_off, to_read))
             /\ dev_off' = dev_off + to_read
             /\ read_total' = ReadTotalAfter(read_total, to_read)
             /\ pc' = "r_check"
             /\ log' = log \o << <<"device_read", to_read>>, <<"output_write", to_read>>,
                                 <<"on_progress", ReadTotalAfter(read_total, to_read)>> >>
             /\ UNCHANGED <<result, inputState, tmpState>>
    /\ UNCHANGED <<inputs, prior, enumVars, running, dev, tmp, outState, writeLocals, img_off, decLocals,
                   size_bytes, corrupted>>

\* read.rs:96-97: image_file.flush()?, Ok(())
ReadFlush ==
    /\ pc = "r_flush"
    /\ \/ Return("Ok", << <<"output_flush", 0>> >>)
       \/ Return("IoFailure", << <<"output_flush_failed", 0>> >>)
    /\ UNCHANGED <<inputs, prior, enumVars, running, dev, tmp, outState, out, writeLocals, offsets, decLocals, readLocals, corrupted>>

(***************************************************************************)
(* The specification                                                       *)
(***************************************************************************)
Next ==
    \/ Interrupt
    \/ DecompressStart
    \/ OpenInput
    \/ SelectReader
    \/ CreateTemp
    \/ DecompressCheck
    \/ DecompressCancel
    \/ DecompressChunk
    \/ DecompressFinish
    \/ OpenImage
    \/ OpenDevice
    \/ WriteCheck
    \/ WriteCancel
    \/ WriteChunk
    \/ WriteFlush
    \/ Corrupt
    \/ VerifyOpen
    \/ VerifyCheck
    \/ VerifyCancel
    \/ VerifyChunk
    \/ VerifyCompare
    \/ ReadOpen
    \/ ReadCreate
    \/ ReadCheck
    \/ ReadCancel
    \/ ReadChunk
    \/ ReadFlush

Spec == Init /\ [][Next]_vars

\* the steps of the thread that runs read::run or write::run: every step but
\* the signal handler's and the medium's
Step ==
    \/ DecompressStart \/ OpenInput \/ SelectReader \/ CreateTemp
    \/ DecompressCheck \/ DecompressCancel \/ DecompressChunk \/ DecompressFinish
    \/ OpenImage \/ OpenDevice \/ WriteCheck \/ WriteCancel \/ WriteChunk \/ WriteFlush
    \/ VerifyOpen \/ VerifyCheck \/ VerifyCancel \/ VerifyChunk \/ VerifyCompare
    \/ ReadOpen \/ ReadCreate \/ ReadCheck \/ ReadCancel \/ ReadChunk \/ ReadFlush

\* every I/O call and callback returns: the thread takes its next step
SpecLive == Init /\ [][Next]_vars /\ WF_vars(Step)

(***************************************************************************)
(* A session: a second run on the device and image the first run left      *)
(***************************************************************************)
\* read.rs:42-51: read::run is called, with a flag of its own, on the device
\* that write::run has just written from an uncompressed image
ReadBack ==
    /\ pc = "done"
    /\ op = "write"
    /\ prior = "none"
    /\ result = "Ok"
    /\ image_path = "input"
    /\ op' = "read"
    /\ prior' = "write"
    /\ pc' = "r_open"
    /\ result' = "none"
    /\ running' = TRUE
    /\ log' = <<>>
    /\ UNCHANGED <<image_name, ext, plainLen, verify, devSize, enumVars, files, writeLocals, offsets,
                   decLocals, readLocals, corrupted>>

\* write.rs:194-206: the Verifying stage is run once more on the same image
\* and device
VerifyAgain ==
    /\ pc = "done"
    /\ op = "write"
    /\ prior = "none"
    /\ result \in {"Ok", "VerificationMismatch"}
    /\ Cardinality({i \in DOMAIN log : log[i][1] = "on_verify_start"}) = 1
    /\ image_path = "input"
    /\ prior' = IF result = "Ok" THEN "verify_Ok" ELSE "verify_VerificationMismatch"
    /\ pc' = "v_open"
    /\ result' = "none"
    /\ running' = TRUE
    /\ log' = <<>>
    /\ UNCHANGED <<inputs, enumVars, files, writeLocals, offsets, decLocals, readLocals, corrupted>>

NextSession ==
    \/ Next
    \/ ReadBack
    \/ VerifyAgain

SpecSession == Init /\ [][NextSession]_vars

(***************************************************************************)
(* platform/linux.rs: get_removable_devices                                *)
(***************************************************************************)
StartsWith(s, prefix) == Len(s) >= Len(prefix) /\ SubSeq(s, 1, Len(prefix)) = prefix

\* char::is_alphabetic, on the characters device names are made of
IsAlphabetic(c) == Positions(LowerCase, c) # {} \/ Positions(UpperCase, c) # {}

Digits == <<"0", "1", "2", "3", "4", "5", "6", "7", "8", "9">>

Whitespace == {" ", "\n", "\t"}

\* linux.rs:11: str::trim
Trim(s) ==
    LET keep == {i \in DOMAIN s : s[i] \notin Whitespace}
    IN IF keep = {} THEN <<>> ELSE SubSeq(s, Lowest(keep), Max(keep))

\* linux.rs:9-12: the trimmed content of the file, or an error
read_sys_file(file) ==
    IF file.readable THEN [ok |-> TRUE, s |-> Trim(file.content)] ELSE [ok |-> FALSE, s |-> <<>>]

RECURSIVE DecimalValue(_)
DecimalValue(d) ==
    IF d = <<>> THEN 0
    ELSE DecimalValue(SubSeq(d, 1, Len(d) - 1)) * 10 + (Lowest(Positions(Digits, d[Len(d)])) - 1)

\* linux.rs:84: str::parse::<u64>: decimal digits after an optional `+`
ParseU64(s) ==
    LET body == IF s # <<>> /\ s[1] = "+" THEN Tail(s) ELSE s
    IN IF body = <<>> \/ \E i \in DOMAIN body : Positions(Digits, body[i]) = {}
       THEN [ok |-> FALSE, v |-> 0]
       ELSE [ok |-> TRUE, v |-> DecimalValue(body)]

DevDir == <<"/", "d", "e", "v", "/">>

\* linux.rs:55, 68: PathBuf::from("/dev/").join(name): an absolute name
\* replaces the directory
DevPath(name) == IF name # <<>> /\ name[1] = "/" THEN name ELSE DevDir \o name

\* linux.rs:16-30
get_parent_device_path(path) ==
    IF StartsWith(path, <<"/", "d", "e", "v", "/", "s", "d">>)
    THEN LET letters == {i \in DOMAIN path : IsAlphabetic(path[i])}
         IN IF letters # {} THEN SubSeq(path, 1, Max(letters)) ELSE path
    ELSE IF StartsWith(path, <<"/", "d", "e", "v", "/", "m", "m", "c", "b", "l", "k">>) \/ StartsWith(path, <<"/", "d", "e", "v", "/", "n", "v", "m", "e">>)
         THEN LET ps == Positions(path, "p")
              IN IF ps # {} THEN SubSeq(path, 1, Lowest(ps) - 1) ELSE path
         ELSE path

\* the first file system stands in when none is mounted on /
RootDisksOrFirst == {i \in DOMAIN disks : disks[i].mount_point = "/" \/ i = 1}

\* linux.rs:53-59: the positions of the file systems mounted on /
RootDisks == {i \in DOMAIN disks : disks[i].mount_point = "/"}

\* linux.rs:70: the name starts with "loop"
IsLoop(device_name) == StartsWith(device_name, <<"l", "o", "o", "p">>)

\* an unreadable attribute counts as removable
is_removable_by_default(b) ==
    LET r == read_sys_file(b.removable) IN IF r.ok THEN r.s = <<"1">> ELSE TRUE

\* linux.rs:74-76
is_removable(b) ==
    LET r == read_sys_file(b.removable) IN IF r.ok THEN r.s = <<"1">> ELSE FALSE

\* linux.rs:82-87
size_sectors(b) ==
    LET r == read_sys_file(b.size)
        parsed == ParseU64(r.s)
    IN IF r.ok /\ parsed.ok THEN parsed.v ELSE 0

\* devices without sectors are listed too
IsEmptyNever(sectors) == FALSE

\* linux.rs:89: size_sectors == 0
IsEmpty(sectors) == sectors = 0

\* linux.rs:93: the size in GB as the fraction bytes / 2^30 (a block device
\* has fewer than 2^63 bytes, so the product stays within u64)
size_gb(sectors) == [bytes |-> sectors * 512, per_gb |-> 1024 * 1024 * 1024]

\* only a file system named exactly like the device counts
MountPointOfExact(device_name) ==
    LET hits == {i \in DOMAIN disks : disks[i].name = device_name /\ disks[i].mount_point # ""}
    IN IF hits = {} THEN "" ELSE disks[Lowest(hits)].mount_point

\* linux.rs:96-105: the mount point of the first file system whose name
\* starts with the device name and whose mount point is not empty
MountPointOf(device_name) ==
    LET hits == {i \in DOMAIN disks : StartsWith(disks[i].name, device_name) /\ disks[i].mount_point # ""}
    IN IF hits = {} THEN "" ELSE disks[Lowest(hits)].mount_point

\* linux.rs:107-112
Device(b) ==
    [path |-> DevPath(b.name), name |-> b.name, size_gb |-> size_gb(size_sectors(b)),
     mount_point |-> MountPointOf(b.name)]

\* linux.rs:66-91: the entry is skipped
Skipped(b) ==
    \/ ~b.ok
    \/ IsLoop(b.name)
    \/ DevPath(b.name) = system_disk_parent
    \/ ~is_removable(b)
    \/ IsEmpty(size_sectors(b))

pipelineVars == <<inputs, running, files, writeLocals, offsets, decLocals, readLocals, corrupted, log, prior>>

\* the same without the log
pipelineState == <<inputs, running, files, writeLocals, offsets, decLocals, readLocals, corrupted, prior>>

InitEnum ==
    /\ op \in {"list", "list_windows"}
    /\ image_name = <<>>
    /\ ext = <<>>
    /\ plainLen = 0
    /\ verify = FALSE
    /\ devSize = 0
    /\ running = TRUE
    /\ dev = <<>>
    /\ inputState = "intact"
    /\ tmpState = "none"
    /\ tmp = <<>>
    /\ outState = "absent"
    /\ out = <<>>
    /\ pc = IF op = "list" THEN "e_begin" ELSE "win_begin"
    /\ result = "none"
    /\ image_path = "none"
    /\ image_len = 0
    /\ written = 0
    /\ remaining = 0
    /\ image_hasher = <<>>
    /\ device_hasher = <<>>
    /\ img_off = 0
    /\ dev_off = 0
    /\ total = 0
    /\ bw = <<>>
    /\ shortReads = 0
    /\ size_bytes = 0
    /\ read_total = 0
    /\ corrupted = FALSE
    /\ log = <<>>
    /\ prior = "none"
    /\ disks \in (IF op = "list" THEN DiskLists ELSE {<<>>})
    /\ blocks \in (IF op = "list" THEN BlockLists ELSE {<<>>})
    /\ system_disk_parent = <<>>
    /\ devices = <<>>
    /\ entry = 0

\* linux.rs:51-61: the parent of the first file system mounted on /, or
\* the error "Could not determine system drive."
FindSystemDisk ==
    /\ pc = "e_begin"
    /\ IF RootDisks # {}
       THEN /\ system_disk_parent' = get_parent_device_path(DevPath(disks[Lowest(RootDisks)].name))
            /\ pc' = "e_read_dir"
            /\ UNCHANGED result
       ELSE /\ pc' = "done"
            /\ result' = "SystemDriveUnknown"
            /\ UNCHANGED system_disk_parent
    /\ UNCHANGED <<pipelineVars, disks, blocks, devices, entry>>

\* linux.rs:63-64: devices = Vec::new(), fs::read_dir("/sys/block")?
ReadBlockDir ==
    /\ pc = "e_read_dir"
    /\ \/ /\ devices' = <<>>
          /\ entry' = 0
          /\ pc' = "e_entry"
          /\ log' = Append(log, <<"read_dir", 0>>)
          /\ UNCHANGED result
       \/ /\ pc' = "done"
          /\ result' = "IoFailure"
          /\ log' = Append(log, <<"read_dir_failed", 0>>)
          /\ UNCHANGED <<devices, entry>>
    /\ UNCHANGED <<pipelineState, disks, blocks, system_disk_parent>>

\* linux.rs:66-113: one entry of /sys/block
NextEntry ==
    /\ pc = "e_entry"
    /\ entry < Len(blocks)
    /\ entry' = entry + 1
    /\ devices' = IF Skipped(blocks[entry + 1]) THEN devices ELSE Append(devices, Device(blocks[entry + 1]))
    /\ log' = Append(log, <<"block_entry", entry + 1>>)
    /\ UNCHANGED <<pipelineState, disks, blocks, system_disk_parent, pc, result>>

\* linux.rs:115: Ok(devices)
ReturnDevices ==
    /\ pc = "e_entry"
    /\ entry = Len(blocks)
    /\ pc' = "done"
    /\ result' = "Ok"
    /\ UNCHANGED <<pipelineVars, enumVars>>

\* windows.rs:13-19: unimplemented!("Windows support is not yet implemented.")
\* panics: the call does not return to its caller
WindowsUnimplemented ==
    /\ pc = "win_begin"
    /\ pc' = "done"
    /\ result' = "Panic"
    /\ UNCHANGED <<pipelineVars, enumVars>>

NextEnum ==
    \/ WindowsUnimplemented
    \/ FindSystemDisk
    \/ ReadBlockDir
    \/ NextEntry
    \/ ReturnDevices

SpecEnum == InitEnum /\ [][NextEnum]_vars


(***************************************************************************)
(* Reading the log                                                         *)
(***************************************************************************)
Idx(name) == {i \in DOMAIN log : log[i][1] = name}

Count(name) == Cardinality(Idx(name))

\* the positions at which a stage loaded the flag and found it false
StopSeen == {i \in Idx("load_running") : log[i][2] = 0}

\* reads and writes on the device, the image, the temporary and output file
TransferEvents == {"decoder_read", "tmp_write", "image_read", "device_write", "device_read", "output_write"}

Transfers == {i \in DOMAIN log : log[i][1] \in TransferEvents}

\* the values a callback was given, strictly increasing along the log
Increasing(name) == \A i, j \in Idx(name) : i < j => log[i][2] < log[j][2]

\* the last value a callback was given is v
LastIs(name, v) == Idx(name) # {} /\ \E i \in Idx(name) : log[i][2] = v /\ \A j \in Idx(name) : j <= i

RECURSIVE SumOf(_, _)
SumOf(name, n) ==
    IF n = 0 THEN 0
    ELSE (IF log[n][1] = name THEN log[n][2] ELSE 0) + SumOf(name, n - 1)

\* the least multiple of the block size that is >= n
RoundUpToBlock(n) == n + ((block_size - (n % block_size)) % block_size)

Device0 == Bytes("dev0", 0, devSize)

\* the device after the whole image went out, padded, over what it held
WrittenDevice ==
    Cat(Cat(PlainImage, Bytes("zero", 0, RoundUpToBlock(plainLen) - plainLen)),
        Drop(Device0, RoundUpToBlock(plainLen)))

WritingDone == Count("device_flush") = 1

(***************************************************************************)
(* C1: in write::run the stages run in the order Decompressing, Writing,   *)
(* Verifying: on_decompress_start comes first and once; every              *)
(* on_decompress_progress precedes on_write_start; on_write_start(L) comes *)
(* once, after the image and the device were opened and before any device  *)
(* write; on_verify_start(L) comes only after the last device write and    *)
(* the flush, and only when verify is set; Ok is returned only after       *)
(* Writing (and Verifying when requested) completed.                       *)
(***************************************************************************)
C1_StageOrder ==
    op = "write" =>
    /\ Count("on_decompress_start") = (IF pc = "w_begin" THEN 0 ELSE 1)
    /\ log # <<>> => log[1][1] = "on_decompress_start"
    /\ \A i \in Idx("on_decompress_progress") : \A j \in Idx("on_write_start") : i < j
    /\ Count("on_write_start") <= 1
    /\ pc \in {"w_check", "w_chunk", "w_cancel", "w_flush"} => Count("on_write_start") = 1
    /\ \A j \in Idx("on_write_start") :
          /\ log[j][2] = image_len
          /\ \E i \in Idx("open_image") : i < j
          /\ \E i \in Idx("open_device") : i < j
          /\ \A k \in Idx("device_write") : j < k
    /\ Count("on_verify_start") <= 1
    /\ \A j \in Idx("on_verify_start") :
          /\ verify
          /\ log[j][2] = image_len
          /\ \E f \in Idx("device_flush") : f < j
          /\ \A k \in Idx("device_write") : k < j
          /\ \A k \in Idx("on_write_start") \cup Idx("on_write_progress") : k < j
    /\ \A k \in Idx("on_verify_progress") : \E j \in Idx("on_verify_start") : j < k
    /\ ~verify => Count("on_verify_start") = 0 /\ Count("on_verify_progress") = 0
    /\ result = "Ok" =>
          /\ Count("on_write_start") = 1
          /\ written = image_len
          /\ WritingDone
          /\ verify => Count("on_verify_start") = 1 /\ remaining = 0

C1_Witness ==
    /\ op = "write"
    /\ result = "Ok"
    /\ verify
    /\ Decoder(ext) # "none"
    /\ Count("on_decompress_progress") >= 2
    /\ Count("on_write_progress") >= 1
    /\ Count("on_verify_progress") >= 1

(***************************************************************************)
(* C2: in every stage the flag is loaded before each chunk is transferred, *)
(* and once a stage has found it false no read or write on the device, the *)
(* image or the temporary file follows before the call returns.            *)
(***************************************************************************)
ChunkStarts ==
    Idx("decoder_read") \cup Idx("image_read") \cup (IF op = "read" THEN Idx("device_read") ELSE {})

FlagLoadedBeforeEachChunk == \A t \in ChunkStarts : t > 1 /\ log[t - 1] = <<"load_running", 1>>

C2_NoTransferAfterStop ==
    /\ FlagLoadedBeforeEachChunk
    /\ \A i \in StopSeen : \A t \in Transfers : t < i

(***************************************************************************)
(* C3: whenever read::run finds the flag false in the copy loop, the       *)
(* partial output file is deleted and the call fails with Cancelled; after *)
(* the call no file exists at the output path.                             *)
(***************************************************************************)
C3_ReadCancelDeletes ==
    (op = "read" /\ pc = "done" /\ StopSeen # {}) =>
        /\ result = "Cancelled"
        /\ outState = "absent"

(***************************************************************************)
(* C4: cancellation is a kind of its own, never produced by an I/O         *)
(* failure: the call returns the cancellation error only if a stage found  *)
(* the flag false; an I/O error of any kind raised while the flag is still *)
(* true is returned as an I/O failure, not as Cancelled.                   *)
(***************************************************************************)
C4_CancelledOnlyWhenStopSeen ==
    (pc = "done" /\ result = "Cancelled") => StopSeen # {}

(***************************************************************************)
(* C5: when write::run is cancelled in the Writing stage after k chunks,   *)
(* it returns Cancelled with no further device write and no rollback: the  *)
(* device holds the first k chunks of the image at [0, k * 1 MiB) and      *)
(* every byte behind them is what it was before the call.                  *)
(***************************************************************************)
CancelledWhileWriting ==
    /\ op = "write"
    /\ result = "Cancelled"
    /\ Count("on_write_start") = 1
    /\ ~WritingDone

C5_CancelKeepsWrittenChunks ==
    CancelledWhileWriting =>
        LET k == Count("device_write")
        IN /\ \A i \in StopSeen : \A w \in Idx("device_write") : w < i
           /\ written = k * BUFFER_SIZE
           /\ dev = Cat(Take(PlainImage, k * BUFFER_SIZE), Drop(Device0, k * BUFFER_SIZE))

C5_Witness ==
    /\ CancelledWhileWriting
    /\ Count("device_write") = 2
    /\ plainLen > 2 * BUFFER_SIZE

(***************************************************************************)
(* C6: the values given to on_write_progress are strictly increasing, each *)
(* at most L, and after a successful write the last one is L itself, the   *)
(* true image length, also when L is not a multiple of 512.                *)
(***************************************************************************)
C6_WriteProgress ==
    op = "write" =>
    /\ Increasing("on_write_progress")
    /\ \A i \in Idx("on_write_progress") : log[i][2] <= image_len /\ image_len = plainLen
    /\ (WritingDone /\ plainLen > 0) => LastIs("on_write_progress", plainLen)

C6_Witness ==
    /\ op = "write"
    /\ result = "Ok"
    /\ plainLen > BUFFER_SIZE
    /\ plainLen % block_size # 0
    /\ LastIs("on_write_progress", plainLen)

(***************************************************************************)
(* C7: each write to the device in the Writing stage is a multiple of 512  *)
(* bytes long and at most 1 MiB; only the final chunk is padded; after a   *)
(* successful Writing stage the device received L rounded up to 512 bytes, *)
(* bytes [0, L) are the image and bytes [L, roundup(L)) are zero.          *)
(***************************************************************************)
C7_BlockAlignedWrites ==
    op = "write" =>
    /\ \A i \in Idx("device_write") :
          /\ log[i][2] % block_size = 0
          /\ log[i][2] <= BUFFER_SIZE
          /\ log[i - 1][1] = "image_read"
          /\ log[i][2] >= log[i - 1][2]
          /\ log[i][2] - log[i - 1][2] < block_size
          /\ log[i][2] # log[i - 1][2] => log[i + 1] = <<"on_write_progress", image_len>>
    /\ WritingDone =>
          /\ SumOf("device_write", Len(log)) = RoundUpToBlock(plainLen)
          /\ ~corrupted =>
                /\ Take(dev, plainLen) = PlainImage
                /\ Slice(dev, plainLen, RoundUpToBlock(plainLen) - plainLen)
                       = Bytes("zero", 0, RoundUpToBlock(plainLen) - plainLen)

C7_Witness ==
    /\ op = "write"
    /\ result = "Ok"
    /\ plainLen = 2 * BUFFER_SIZE + block_size + 188
    /\ SumOf("device_write", Len(log)) = 2 * BUFFER_SIZE + 2 * block_size
    /\ Count("device_write") = 3

(***************************************************************************)
(* C8: with verify set and neither cancellation nor an I/O error, run      *)
(* returns Ok exactly when the first L bytes of the device equal the       *)
(* image, and the mismatch error otherwise; a single differing byte among  *)
(* them gives the mismatch, and the mismatch leaves on the device what was *)
(* written.                                                                *)
(***************************************************************************)
BadOffsets == {dev[i].off : i \in {j \in DOMAIN dev : dev[j].src = "bad"}}

C8_VerifyDecides ==
    (op = "write" /\ verify /\ result \in {"Ok", "VerificationMismatch"}) =>
        /\ result = "Ok" <=> Take(dev, plainLen) = PlainImage
        /\ (\E o \in BadOffsets : o < plainLen) => result = "VerificationMismatch"
        /\ result = "VerificationMismatch" =>
              \E o \in BadOffsets : dev = WriteAt(WrittenDevice, o, Bytes("bad", o, 1))
        /\ \A k \in Idx("device_write") : \A j \in Idx("on_verify_start") : k < j

C8_Witness ==
    /\ op = "write"
    /\ result = "VerificationMismatch"
    /\ plainLen > BUFFER_SIZE
    /\ BadOffsets = {plainLen - 1}

(***************************************************************************)
(* C9: verification reads image and device in lockstep chunks of at most   *)
(* 1 MiB for exactly L bytes of each, and the mismatch is reported only    *)
(* after all L bytes of both were consumed, even when the first chunk      *)
(* already differs; the values given to on_verify_progress are cumulative, *)
(* strictly increasing and end at L.                                       *)
(***************************************************************************)
VerifyStarted == Count("on_verify_start") = 1

VerifyEvents(name) == {i \in Idx(name) : \E j \in Idx("on_verify_start") : j < i}

RECURSIVE SumFrom(_, _, _)
SumFrom(name, from, n) ==
    IF n <= from THEN 0
    ELSE (IF log[n][1] = name THEN log[n][2] ELSE 0) + SumFrom(name, from, n - 1)

C9_VerifyReadsEverything ==
    (op = "write" /\ VerifyStarted) =>
        LET s == CHOOSE j \in Idx("on_verify_start") : TRUE
        IN /\ \A i \in VerifyEvents("device_read") :
                 /\ log[i - 1] = <<"image_read", log[i][2]>>
                 /\ log[i][2] <= BUFFER_SIZE
                 /\ log[i + 1] = <<"on_verify_progress", SumFrom("device_read", s, i)>>
           /\ Increasing("on_verify_progress")
           /\ Size(image_hasher) = SumFrom("device_read", s, Len(log))
           /\ Size(device_hasher) = SumFrom("device_read", s, Len(log))
           /\ result \in {"Ok", "VerificationMismatch"} =>
                 /\ SumFrom("image_read", s, Len(log)) = plainLen
                 /\ SumFrom("device_read", s, Len(log)) = plainLen
                 /\ plainLen > 0 => LastIs("on_verify_progress", plainLen)

C9_Witness ==
    /\ op = "write"
    /\ result = "VerificationMismatch"
    /\ BadOffsets = {0}
    /\ Count("on_verify_progress") = 3

(***************************************************************************)
(* C10: the temporary file never outlives the call: on every exit path of  *)
(* write::run after the temporary file was created, it has been deleted    *)
(* when the call returns.                                                  *)
(***************************************************************************)
C10_TempDeletedOnReturn ==
    /\ pc = "done" => tmpState # "exists"
    /\ (pc = "done" /\ Count("create_temp") = 1) => tmpState = "deleted" /\ Count("delete_temp") = 1
    /\ (pc # "done" /\ Count("create_temp") = 1) => tmpState = "exists"

C10_Witness ==
    /\ pc = "done"
    /\ tmpState = "deleted"
    /\ result = "VerificationMismatch"

(***************************************************************************)
(* C11: the caller's image file is never deleted or modified, whatever the *)
(* call returns (Ok, Cancelled, an I/O failure, VerificationMismatch) and  *)
(* whether the image is compressed or not: the only file the call deletes  *)
(* is its own temporary file.  For an image without a recognised           *)
(* compression suffix no temporary file is created at all, and the path    *)
(* handed to the Writing and Verifying stages is the caller's own path.    *)
(***************************************************************************)
C11_InputImageUntouched ==
    op = "write" =>
    /\ inputState = "intact"
    /\ Decoder(ext) = "none" =>
          /\ tmpState = "none"
          /\ Count("create_temp") = 0
          /\ Count("delete_temp") = 0
          /\ image_path = (IF Count("pass_through") = 1 THEN "input" ELSE "none")
          /\ Count("open_image") > 0 => image_path = "input"
    /\ Decoder(ext) # "none" =>
          /\ image_path \in {"none", "tmp"}
          /\ Count("delete_temp") = (IF tmpState = "deleted" THEN 1 ELSE 0)

C11_Witness ==
    /\ op = "write"
    /\ pc = "done"
    /\ Decoder(ext) = "none"
    /\ image_path = "input"
    /\ result = "Cancelled"
    /\ Count("device_write") = 1
    /\ inputState = "intact"

(***************************************************************************)
(* C12: partial decompressed content is never exposed.  For a compressed   *)
(* image the Writing and Verifying stages open the temporary file only     *)
(* after decompress_image returned Ok, and then the decoder has reported   *)
(* end of stream, nothing is left in the BufWriter and the temporary file  *)
(* holds every decoded byte; when decompression is cancelled or fails, no  *)
(* DecompressedImage is returned and the temporary file is never opened.   *)
(***************************************************************************)
C12_NoPartialImageExposed ==
    (op = "write" /\ Decoder(ext) # "none") =>
    /\ image_path = "none" => Count("open_image") = 0
    /\ (pc = "done" /\ image_path = "none") => result \in {"Cancelled", "IoFailure"}
    /\ image_path = "tmp" =>
          /\ \E i \in Idx("decoder_read") : log[i][2] = 0 /\ \A j \in Idx("decoder_read") : j <= i
          /\ bw = <<>>
          /\ total = plainLen
          /\ tmp = PlainImage
          /\ SumOf("decoder_read", Len(log)) = plainLen
          /\ SumOf("tmp_write", Len(log)) = plainLen
          /\ \A j \in Idx("open_image") : \A i \in Idx("decoder_read") \cup Idx("tmp_write") : i < j
          /\ Count("open_image") > 0 => image_len = plainLen

C12_Witness ==
    /\ op = "write"
    /\ Decoder(ext) = "xz"
    /\ image_path = "tmp"
    /\ plainLen = 2 * DECOMPRESS_BUFFER + block_size + 188
    /\ shortReads = 1
    /\ Count("open_image") = 2
    /\ result = "Ok"

(***************************************************************************)
(* The reader the Decompressing stage chose                                *)
(***************************************************************************)
ReaderEvents == {"pass_through", "gzip", "xz", "zstd", "zstd_failed"}

Chosen == {log[i][1] : i \in DOMAIN log} \cap ReaderEvents

\* the events by which the choice of decoder d shows in the log
EventsOf(d) ==
    CASE d = "none" -> {"pass_through"}
      [] d = "zstd" -> {"zstd", "zstd_failed"}
      [] OTHER -> {d}

ReaderChosen == op = "write" /\ Count("open_input") = 1 /\ pc # "d_select"

\* the same text up to the case of its letters
SameLetters(a, b) ==
    /\ Len(a) = Len(b)
    /\ \A i \in DOMAIN a :
          \/ a[i] = b[i]
          \/ \E k \in DOMAIN LowerCase : {a[i], b[i]} = {LowerCase[k], UpperCase[k]}

SuffixIn(file_name, suffixes) == \E s \in suffixes : SameLetters(Extension(file_name), s)

(***************************************************************************)
(* C13 (as stated): the decoder is selected from the file name's final     *)
(* suffix alone: .gz or .gzip selects gzip, .xz selects xz, .zst or .zstd  *)
(* selects Zstandard, every other suffix (or none) is passed through.      *)
(* The suffix is taken as the code takes it, by Path::extension.           *)
(***************************************************************************)
C13_ExactSuffixSelects ==
    ReaderChosen => Chosen \subseteq EventsOf(Decoder(Extension(image_name)))

(***************************************************************************)
(* C13 (amended): the decoder is selected from the file name's extension   *)
(* alone, compared without regard to case: gz or gzip selects gzip, xz     *)
(* selects xz, zst or zstd selects Zstandard; any other extension, and a   *)
(* name without extension (no dot, or only a leading dot as in `.gz`), is  *)
(* passed through.  Exactly one choice is made.                            *)
(***************************************************************************)
C13_ExtensionSelectsIgnoringCase ==
    ReaderChosen =>
    /\ Cardinality(Chosen) = 1
    /\ SuffixIn(image_name, {<<"g", "z">>, <<"g", "z", "i", "p">>}) => Chosen = {"gzip"}
    /\ SuffixIn(image_name, {<<"x", "z">>}) => Chosen = {"xz"}
    /\ SuffixIn(image_name, {<<"z", "s", "t">>, <<"z", "s", "t", "d">>}) => Chosen \subseteq {"zstd", "zstd_failed"}
    /\ ~SuffixIn(image_name, {<<"g", "z">>, <<"g", "z", "i", "p">>, <<"x", "z">>,
                              <<"z", "s", "t">>, <<"z", "s", "t", "d">>}) => Chosen = {"pass_through"}

C13_Witness ==
    /\ image_name = <<"A", ".", "G", "Z">>
    /\ Chosen = {"gzip"}
    /\ image_path = "tmp"
    /\ result = "Ok"

(***************************************************************************)
(* C14: when the device reports a size of 0 bytes, read::run fails with    *)
(* ZeroSize before the output image is created: the file at the image path *)
(* is as it was before the call (absent, or the old file with its old      *)
(* content), and neither on_read_start nor on_progress was invoked.        *)
(***************************************************************************)
OutputUntouched ==
    /\ outState # "exists"
    /\ out = (IF outState = "old" THEN Bytes("out0", 0, 1) ELSE <<>>)
    /\ Count("create_output") = 0
    /\ Count("remove_output") = 0
    /\ Count("output_write") = 0

C14_ZeroSizeBeforeOutput ==
    /\ (op = "read" /\ devSize = 0 /\ Count("open_device") = 1) => pc = "done" /\ result = "ZeroSize"
    /\ result = "ZeroSize" =>
          /\ op = "read"
          /\ devSize = 0
          /\ OutputUntouched
          /\ Count("on_read_start") = 0
          /\ Count("on_progress") = 0
          /\ Count("device_read") = 0

C14_Witness ==
    /\ op = "read"
    /\ pc = "done"
    /\ result = "ZeroSize"
    /\ outState = "old"
    /\ out = Bytes("out0", 0, 1)

(***************************************************************************)
(* C15: for a device of size S > 0, read::run invokes on_read_start(S)     *)
(* once, before the output file is created and before any on_progress; it  *)
(* copies chunks of at most 1 MiB; after each chunk on_progress is given   *)
(* the cumulative byte count, so the reported values are strictly          *)
(* increasing and never exceed S; on success the last value is S, the      *)
(* output file was flushed and it holds exactly the S bytes of the device, *)
(* in order.                                                               *)
(***************************************************************************)
C15_ReadProgress ==
    op = "read" =>
    /\ Count("on_read_start") <= 1
    /\ Count("create_output") > 0 => Count("on_read_start") = 1
    /\ \A i \in Idx("on_read_start") :
          /\ log[i][2] = devSize
          /\ devSize > 0
          /\ \A j \in Idx("create_output") \cup Idx("on_progress") : i < j
    /\ \A i \in Idx("device_read") \cup Idx("output_write") : 0 < log[i][2] /\ log[i][2] <= BUFFER_SIZE
    /\ \A i \in Idx("output_write") :
          /\ log[i - 1] = <<"device_read", log[i][2]>>
          /\ i < Len(log)
          /\ log[i + 1] = <<"on_progress", SumOf("output_write", i)>>
    /\ \A i \in Idx("on_progress") : log[i - 1][1] = "output_write" /\ log[i][2] <= devSize
    /\ Increasing("on_progress")
    /\ Size(out) = (IF outState = "exists" THEN SumOf("output_write", Len(log)) ELSE Size(out))
    /\ (pc = "done" /\ result = "Ok") =>
          /\ LastIs("on_progress", devSize)
          /\ Count("output_flush") = 1
          /\ \A i \in Idx("output_flush") : \A j \in Idx("output_write") : j < i
          /\ outState = "exists"
          /\ Size(out) = devSize
          /\ out = dev

C15_Witness ==
    /\ op = "read"
    /\ pc = "done"
    /\ result = "Ok"
    /\ devSize = BUFFER_SIZE + block_size
    /\ Count("on_progress") = 2
    /\ out = Bytes("dev0", 0, BUFFER_SIZE + block_size)

(***************************************************************************)
(* The round trip: read::run returned Ok on the device an Ok write::run of *)
(* an uncompressed image left, and no byte changed behind the program      *)
(***************************************************************************)
RoundTripDone == prior = "write" /\ op = "read" /\ pc = "done" /\ result = "Ok" /\ ~corrupted

(***************************************************************************)
(* C16 (as stated): round trip: writing an uncompressed image to a device  *)
(* and reading that device to a new file, with no cancellation and no I/O  *)
(* error, gives a file whose bytes are exactly the image's bytes.          *)
(***************************************************************************)
C16_RoundTripExact == RoundTripDone => out = PlainImage

(***************************************************************************)
(* C16 (amended): the round trip gives a file of the device's size S whose *)
(* first L bytes are the image's bytes; behind them come the zeros that    *)
(* pad the image to a multiple of 512 and then the bytes the device held   *)
(* before; the file equals the image exactly when S = L.                   *)
(***************************************************************************)
C16_RoundTripPrefix ==
    RoundTripDone =>
    /\ Size(out) = devSize
    /\ plainLen <= devSize
    /\ Take(out, plainLen) = PlainImage
    /\ out = WrittenDevice
    /\ out = PlainImage <=> devSize = plainLen

C16_Witness ==
    /\ RoundTripDone
    /\ plainLen = BUFFER_SIZE + 1
    /\ devSize = BUFFER_SIZE + block_size
    /\ out = Cat(PlainImage, Bytes("zero", 0, block_size - 1))

(***************************************************************************)
(* C17: verification is read-only and idempotent: no step of the Verifying *)
(* stage changes the device or the image, and running the stage a second   *)
(* time on the unmodified device and image gives the result of the first   *)
(* time, pass or fail.                                                     *)
(***************************************************************************)
VerifyPcs == {"v_open", "v_check", "v_chunk", "v_cancel", "v_compare"}

\* a step of the program in the Verifying stage
VerifyStep == pc \in VerifyPcs /\ pc' # pc

SecondVerdict == prior \in {"verify_Ok", "verify_VerificationMismatch"} /\ pc = "done"

C18_ListedDevicesUsable ==
    op = "list" =>
    \A i \in DOMAIN devices :
       /\ devices[i].size_gb.bytes > 0
       /\ devices[i].size_gb.per_gb > 0
       /\ devices[i].path # system_disk_parent
       /\ devices[i].path = DevDir \o devices[i].name

C18_Witness ==
    /\ op = "list"
    /\ pc = "done"
    /\ result = "Ok"
    /\ Len(blocks) = 2
    /\ blocks[1].name = <<"s", "d", "a">>
    /\ system_disk_parent = DevDir \o <<"s", "d", "a">>
    /\ Len(devices) = 1
    /\ devices[1].name = <<"s", "d", "b">>
    /\ devices[1].size_gb.bytes = 2048 * 512

(***************************************************************************)
(* C19: get_removable_devices returns exactly the entries of /sys/block    *)
(* that pass all four filters, in the order of the listing: the name does  *)
(* not start with "loop", the path is not the system-disk parent, the      *)
(* `removable` file is readable and reads 1, and the `size` file is        *)
(* readable and parses to a sector count other than 0.                     *)
(***************************************************************************)
RemovableTrue(b) == b.removable.readable /\ Trim(b.removable.content) = <<"1">>

NonZeroSectors(b) ==
    /\ b.size.readable
    /\ ParseU64(Trim(b.size.content)).ok
    /\ ParseU64(Trim(b.size.content)).v # 0

Passes(b) ==
    /\ b.ok
    /\ ~StartsWith(b.name, <<"l", "o", "o", "p">>)
    /\ DevDir \o b.name # system_disk_parent
    /\ RemovableTrue(b)
    /\ NonZeroSectors(b)

C19_ExactlyThePassingEntries ==
    (op = "list" /\ (pc = "e_entry" \/ (pc = "done" /\ result = "Ok"))) =>
    LET passed == SelectSeq(SubSeq(blocks, 1, entry), Passes)
    IN /\ pc = "done" => entry = Len(blocks)
       /\ Len(devices) = Len(passed)
       /\ \A i \in DOMAIN devices :
             /\ devices[i].name = passed[i].name
             /\ devices[i].path = DevDir \o passed[i].name

C19_Witness ==
    /\ op = "list"
    /\ pc = "done"
    /\ result = "Ok"
    /\ Len(blocks) = 2
    /\ Len(devices) = 2
    /\ devices[1].name = <<"n", "v", "m", "e", "0", "n", "1">>
    /\ devices[2].name = <<"s", "d", "b">>

(***************************************************************************)
(* The whole-disk path the three partition forms name                      *)
(***************************************************************************)
IsLetters(s) == s # <<>> /\ \A i \in DOMAIN s : IsAlphabetic(s[i])

IsDigits(s) == s # <<>> /\ \A i \in DOMAIN s : Positions(Digits, s[i]) # {}

\* /dev/sd<letters><digits>: the positions of the last letter
SdForm(path) ==
    {k \in DOMAIN path :
        /\ StartsWith(path, <<"/", "d", "e", "v", "/", "s", "d">>)
        /\ IsLetters(SubSeq(path, 8, k))
        /\ IsDigits(SubSeq(path, k + 1, Len(path)))}

\* /dev/mmcblk<a>p<b>: the positions of the p
MmcblkForm(path) ==
    {k \in DOMAIN path :
        /\ StartsWith(path, <<"/", "d", "e", "v", "/", "m", "m", "c", "b", "l", "k">>)
        /\ path[k] = "p"
        /\ IsDigits(SubSeq(path, 12, k - 1))
        /\ IsDigits(SubSeq(path, k + 1, Len(path)))}

\* /dev/nvme<a>n<b>p<c>: the positions of the p
NvmeForm(path) ==
    {k \in DOMAIN path :
        /\ StartsWith(path, <<"/", "d", "e", "v", "/", "n", "v", "m", "e">>)
        /\ path[k] = "p"
        /\ \E n \in DOMAIN path :
              /\ path[n] = "n"
              /\ IsDigits(SubSeq(path, 10, n - 1))
              /\ IsDigits(SubSeq(path, n + 1, k - 1))
        /\ IsDigits(SubSeq(path, k + 1, Len(path)))}

WholeDisk(path) ==
    IF SdForm(path) # {} THEN SubSeq(path, 1, Max(SdForm(path)))
    ELSE IF MmcblkForm(path) # {} THEN SubSeq(path, 1, Max(MmcblkForm(path)) - 1)
    ELSE IF NvmeForm(path) # {} THEN SubSeq(path, 1, Max(NvmeForm(path)) - 1)
    ELSE path

(***************************************************************************)
(* C20: get_parent_device_path maps a partition path to its whole-disk     *)
(* path (/dev/sd<letters><digits> to /dev/sd<letters>, /dev/nvme<a>n<b>p<c>*)
(* to /dev/nvme<a>n<b>, /dev/mmcblk<a>p<b> to /dev/mmcblk<a>) and returns  *)
(* every other path unchanged, so applying it twice gives what applying it *)
(* once gives.                                                             *)
(***************************************************************************)
C20_ParentOfPartition ==
    (op = "list" /\ pc # "e_begin" /\ RootDisks # {}) =>
    /\ system_disk_parent = WholeDisk(DevPath(disks[Lowest(RootDisks)].name))
    /\ get_parent_device_path(system_disk_parent) = system_disk_parent

(***************************************************************************)
(* C21: when no mounted file system has the mount point /,                 *)
(* get_removable_devices fails with the system-drive-unknown error before  *)
(* it reads /sys/block or looks at any block device; it returns a device   *)
(* list, empty or not, only after the system disk parent was determined.   *)
(***************************************************************************)
NoRootMount == \A i \in DOMAIN disks : disks[i].mount_point # "/"

C21_NoRootMountFails ==
    op = "list" =>
    /\ (NoRootMount /\ pc # "e_begin") =>
          /\ pc = "done"
          /\ result = "SystemDriveUnknown"
          /\ log = <<>>
          /\ devices = <<>>
          /\ entry = 0
          /\ system_disk_parent = <<>>
    /\ result = "SystemDriveUnknown" => NoRootMount
    /\ (Count("read_dir") + Count("read_dir_failed") > 0 \/ result = "Ok") =>
          /\ ~NoRootMount
          /\ system_disk_parent # <<>>

C21_Witness ==
    /\ op = "list"
    /\ pc = "done"
    /\ result = "SystemDriveUnknown"
    /\ Len(disks) = 2
    /\ Len(blocks) = 2
    /\ blocks[1].ok
    /\ log = <<>>

(***************************************************************************)
(* C22: on a platform without an enumeration implementation the discovery  *)
(* call fails by returning an Unsupported error value to its caller, never *)
(* an empty device list, so the caller can tell "no devices" from "not     *)
(* implemented here" by the result it gets back.                           *)
(***************************************************************************)
C22_UnsupportedIsReturned ==
    (op = "list_windows" /\ pc = "done") => result = "Unsupported"


FailureEvents ==
    {"open_input_failed", "create_temp_failed", "decoder_read_failed", "tmp_write_failed",
     "open_image_failed", "open_device_failed", "image_read_failed", "device_write_failed",
     "device_flush_failed", "device_read_failed", "create_output_failed", "output_write_failed",
     "output_flush_failed"}

Failures == {i \in DOMAIN log : log[i][1] \in FailureEvents}

\* reads and writes on the device and on the image, and the callbacks
DeviceImageEvents == {"decoder_read", "image_read", "device_write", "device_read", "output_write"}

CallbackEvents ==
    {"on_decompress_start", "on_decompress_progress", "on_write_start", "on_write_progress",
     "on_verify_start", "on_verify_progress", "on_read_start", "on_progress"}

NothingAfter(i) == \A j \in DOMAIN log : j > i => log[j][1] \notin DeviceImageEvents \cup CallbackEvents

C24_FirstFailureEnds ==
    /\ Cardinality(Failures) <= 1
    /\ \A i \in Failures : pc = "done" /\ result = "IoFailure" /\ NothingAfter(i)


(***************************************************************************)
(* C25: cancellation takes effect within one chunk. A chunk is transferred *)
(* only right after a check that found the flag true, so at most the chunk *)
(* under way when the flag is cleared is still transferred; the next check *)
(* of a loop with chunks to come finds the flag false and leads to the     *)
(* cancel path without touching a file; the cancel path transfers no chunk *)
(* and returns Cancelled, never Ok, and after read::run's cancel path the  *)
(* partial output file no longer exists.                                   *)
(***************************************************************************)
CheckPcs == {"d_check", "w_check", "v_check", "r_check"}

ChunkPcs == {"d_read", "w_chunk", "v_chunk", "r_chunk"}

CancelPcs == {"d_cancel", "w_cancel", "v_cancel", "r_cancel"}

\* the loop at its check has a chunk to come
ChunkToCome ==
    \/ pc = "d_check"
    \/ pc = "w_check" /\ written < image_len
    \/ pc = "v_check" /\ remaining > 0
    \/ pc = "r_check" /\ read_total < size_bytes

ChunkEvents == {"decoder_read", "image_read", "device_write", "device_read", "output_write"}

NoChunkIn(evs) == \A i \in DOMAIN evs : evs[i][1] \notin ChunkEvents

C25_CancelWithinOneChunk ==
    /\ [](/\ pc \in ChunkPcs => log[Len(log)] = <<"load_running", 1>>
          /\ (pc = "done" /\ StopSeen # {}) => result # "Ok")
    /\ [][/\ (~running /\ pc \in CheckPcs /\ ChunkToCome) =>
                /\ pc' \in CancelPcs
                /\ log' = Append(log, <<"load_running", 0>>)
                /\ UNCHANGED files
          /\ pc \in CancelPcs =>
                /\ pc' = "done"
                /\ result' = "Cancelled"
                /\ NoChunkIn(SubSeq(log', Len(log) + 1, Len(log')))
                /\ dev' = dev
                /\ op = "read" => outState' = "absent"]_vars


(***************************************************************************)
(* C26: decompressing a compressed image, every read from the decoder      *)
(* returns at most 8 KiB, each non-empty chunk that was written is         *)
(* followed by on_decompress_progress with the number of bytes decoded so  *)
(* far, the reported values are strictly increasing and, once the stage    *)
(* has succeeded, the last one is the length of the temporary file, which  *)
(* the Writing stage records as image_len.  For a pass-through image       *)
(* on_decompress_progress is never invoked; on_decompress_start is invoked *)
(* once for every image.                                                   *)
(***************************************************************************)
NonEmptyChunks == {i \in Idx("decoder_read") : log[i][2] > 0}

\* the first callback or decoder read behind position i
NextStep(i) ==
    LET later == {j \in DOMAIN log : j > i /\ log[j][1] \in {"on_decompress_progress", "decoder_read"}}
    IN IF later = {} THEN 0 ELSE CHOOSE j \in later : \A k \in later : j <= k

C26_DecompressProgress ==
    op = "write" =>
    /\ Count("on_decompress_start") = (IF pc = "w_begin" THEN 0 ELSE 1)
    /\ \A i \in Idx("decoder_read") : log[i][2] <= DECOMPRESS_BUFFER
    /\ \A i \in NonEmptyChunks :
          \/ log[i + 1][1] = "tmp_write_failed"
          \/ /\ NextStep(i) # 0
             /\ log[NextStep(i)] = <<"on_decompress_progress", SumOf("decoder_read", i)>>
    /\ \A j \in Idx("on_decompress_progress") :
          /\ log[j][2] = SumOf("decoder_read", j)
          /\ \E i \in NonEmptyChunks : i < j /\ NextStep(i) = j
    /\ Increasing("on_decompress_progress")
    /\ (Decoder(ext) # "none" /\ image_path = "tmp" /\ plainLen > 0) =>
          /\ LastIs("on_decompress_progress", Size(tmp))
          /\ Count("open_image") > 0 => image_len = Size(tmp)
    /\ Decoder(ext) = "none" => Count("on_decompress_progress") = 0 /\ Count("decoder_read") = 0

C26_Witness ==
    /\ op = "write" /\ Decoder(ext) = "gzip" /\ pc = "done" /\ result = "Ok"
    /\ plainLen = 2 * DECOMPRESS_BUFFER + 1
    /\ shortReads = 1
    /\ Count("on_decompress_progress") = 3
    /\ LastIs("on_decompress_progress", image_len)


(***************************************************************************)
(* C27: for each returned device, mount_point is the mount point of the    *)
(* first file system, in the order of the list, whose name starts with the *)
(* device's kernel name and whose mount point is not empty, and the empty  *)
(* string if there is none.                                                *)
(***************************************************************************)
Matches(i, d) == StartsWith(disks[i].name, d.name)

C27_FirstMountedMatch ==
    (op = "list" /\ pc = "done" /\ result = "Ok") =>
    \A k \in DOMAIN devices :
       LET d == devices[k]
       IN \/ /\ d.mount_point = ""
             /\ \A i \in DOMAIN disks : Matches(i, d) => disks[i].mount_point = ""
          \/ \E i \in DOMAIN disks :
                /\ Matches(i, d)
                /\ disks[i].mount_point # ""
                /\ d.mount_point = disks[i].mount_point
                /\ \A j \in 1..(i - 1) : Matches(j, d) => disks[j].mount_point = ""

\* as stated: the first file system whose name starts with the kernel name,
\* whatever its mount point
C27_FirstMatch ==
    (op = "list" /\ pc = "done" /\ result = "Ok") =>
    \A k \in DOMAIN devices :
       LET d == devices[k]
       IN \/ /\ d.mount_point = ""
             /\ \A i \in DOMAIN disks : ~Matches(i, d)
          \/ \E i \in DOMAIN disks :
                /\ Matches(i, d)
                /\ d.mount_point = disks[i].mount_point
                /\ \A j \in 1..(i - 1) : ~Matches(j, d)

C27_Witness ==
    /\ op = "list" /\ pc = "done" /\ result = "Ok"
    /\ Len(disks) = 2 /\ disks[1].mount_point = "/mnt" /\ disks[2].mount_point = "/"
    /\ \E k \in DOMAIN devices :
          /\ Matches(1, devices[k]) /\ Matches(2, devices[k])
          /\ devices[k].mount_point = "/mnt"


(***************************************************************************)
(* C28: when every I/O call and callback returns, every call of read::run  *)
(* and of write::run ends, in exactly one of Ok, Cancelled or a failure.   *)
(* Each iteration of a copy loop advances its byte counter by between 1    *)
(* byte and 1 MiB towards its fixed total (size_bytes or image_len), the   *)
(* decompression loop advances by between 1 byte and 8 KiB and is left at  *)
(* the decoder's end of stream, and no stage is entered again once left.   *)
(***************************************************************************)
Outcomes == {"Ok", "Cancelled", "IoFailure", "ZeroSize", "VerificationMismatch"}

\* the stage a position belongs to
Stage(p) ==
    CASE p = "w_begin" -> 0
      [] p \in {"d_open", "d_select", "d_tmp", "d_check", "d_read", "d_cancel", "d_flush"} -> 1
      [] p \in {"w_open_image", "w_open_device", "w_check", "w_chunk", "w_cancel", "w_flush"} -> 2
      [] p \in {"v_open", "v_check", "v_chunk", "v_cancel", "v_compare"} -> 3
      [] p \in {"r_open", "r_create"} -> 1
      [] p \in {"r_check", "r_chunk", "r_cancel", "r_flush"} -> 2
      [] p = "done" -> 4

StartEvents == {"on_decompress_start", "on_write_start", "on_verify_start", "on_read_start"}

C28_Terminates ==
    /\ <>(pc = "done")
    /\ [](/\ (pc = "done") <=> (result \in Outcomes)
          /\ result \in Outcomes \cup {"none"}
          /\ \A e \in StartEvents : Count(e) <= 1)
    /\ [][/\ Stage(pc') >= Stage(pc)
          /\ (pc = "w_chunk" /\ pc' = "w_check") =>
                /\ written' - written \in 1..BUFFER_SIZE
                /\ written' <= image_len /\ image_len' = image_len
          /\ (pc = "v_chunk" /\ pc' = "v_check") =>
                /\ remaining - remaining' \in 1..BUFFER_SIZE
                /\ remaining' >= 0 /\ image_len' = image_len
          /\ (pc = "r_chunk" /\ pc' = "r_check") =>
                /\ read_total' - read_total \in 1..BUFFER_SIZE
                /\ read_total' <= size_bytes /\ size_bytes' = size_bytes
          /\ (pc = "d_read" /\ pc' = "d_check") =>
                /\ total' - total \in 1..DECOMPRESS_BUFFER
                /\ total' <= plainLen
          /\ (pc = "d_read" /\ pc' = "d_flush") => total = plainLen /\ total' = total
          /\ (pc \in CheckPcs \/ pc \in CancelPcs) =>
                UNCHANGED <<written, remaining, read_total, total>>]_vars

C28_Witness ==
    /\ op = "write" /\ verify /\ Decoder(ext) = "zstd"
    /\ pc = "done" /\ result = "Ok" /\ ~running
    /\ Count("decoder_read") = 3
    /\ Count("on_write_progress") = 1
    /\ Count("on_verify_progress") = 1


(***************************************************************************)
(* C29: when the flag is already false as write::run is called, no byte is *)
(* ever written to the device, whatever the image (compressed or not, of   *)
(* any length) and whatever verify is: from then on the call never writes  *)
(* the device, which keeps the content it had unless the medium itself     *)
(* changes, and the call ends cancelled or failed unless the image is      *)
(* empty.                                                                  *)
(***************************************************************************)
C29_StoppedBeforeStartWritesNothing ==
    []((op = "write" /\ pc = "w_begin" /\ ~running) =>
          [](/\ Count("device_write") = 0
             /\ Count("device_write_failed") = 0
             /\ ~corrupted => dev = Device0
             /\ pc \notin {"w_chunk", "v_chunk"}
             /\ (pc = "done" /\ plainLen > 0) => result \in {"Cancelled", "IoFailure"}))

C29_Witness ==
    /\ op = "write" /\ verify /\ Decoder(ext) = "none"
    /\ plainLen = 2 * BUFFER_SIZE + block_size
    /\ pc = "done" /\ result = "Cancelled"
    /\ log = << <<"on_decompress_start", 0>>, <<"open_input", 0>>, <<"pass_through", 0>>,
                <<"open_image", 0>>, <<"open_device", 0>>, <<"on_write_start", plainLen>>,
                <<"load_running", 0>> >>
    /\ dev = Device0


(***************************************************************************)
(* C30: after read::run has returned, what is at the output path follows   *)
(* from the outcome: after Ok the file the call created is there and holds *)
(* exactly the size_bytes bytes of the device; after Cancelled there is no *)
(* file at the path; a file of fewer bytes than the device has is there    *)
(* only after an I/O failure, and if the call created it, the failure came *)
(* after the creation.  The call never returns Ok having copied fewer      *)
(* bytes than the device has.                                              *)
(***************************************************************************)
C30_OutputFollowsOutcome ==
    (op = "read" /\ pc = "done") =>
    /\ result = "Ok" =>
          /\ outState = "exists"
          /\ Size(out) = devSize /\ out = Device0
          /\ size_bytes = devSize /\ read_total = devSize
          /\ SumOf("device_read", Len(log)) = devSize
          /\ SumOf("output_write", Len(log)) = devSize
    /\ result = "Cancelled" => outState = "absent"
    /\ (outState # "absent" /\ Size(out) < devSize) =>
          /\ result = "IoFailure"
          /\ Cardinality(Failures) + Count("remove_output_failed") = 1
          /\ outState = "exists" =>
                \A c \in Idx("create_output") :
                   \A f \in Failures \cup Idx("remove_output_failed") : c < f
          /\ outState = "exists" <=> Count("create_output") = 1

C30_Witness ==
    /\ op = "read" /\ pc = "done" /\ result = "IoFailure" /\ running
    /\ devSize = (MaxChunks + 1) * BUFFER_SIZE
    /\ outState = "exists" /\ Size(out) = BUFFER_SIZE
    /\ Count("output_write_failed") = 1

====
